---- MODULE Spec2Model ----
(***************************************************************************)
(* Market-server: the product catalog servers of src/server.js (the        *)
(* WebSocket + /api/upload server of lines 1-79 and the HTTP marketplace   *)
(* server of lines 81-339) and the WebSocket product server of             *)
(* src/unnamed/part_000, taken together as one service: two product        *)
(* submission endpoints, their two product tables and upload directories,  *)
(* the users table, and the set of WebSocket clients.                      *)
(*                                                                         *)
(* Strings that the code only compares or passes on are TLA+ strings; the  *)
(* empty string stands for an absent (undefined) or empty field, both of   *)
(* which JavaScript's `!x` treats alike.  Strings the code takes apart     *)
(* (file names, prices) are sequences of one-character strings.            *)
(***************************************************************************)
EXTENDS Integers, Sequences, FiniteSets, TLC

\* ------------------------------------------------------------- bounds
MaxReqs == 2        \* product submissions over a run
MaxClients == 2     \* WebSocket connections over a run
MaxMsgs == 1        \* getProducts replies per connection
MaxMs == 1          \* readings of Date.now() range over 0..MaxMs
MaxSec == 1         \* readings of CURRENT_TIMESTAMP range over 0..MaxSec

\* limits: { fileSize: 5 * 1024 * 1024 }
FileSizeLimit == 5242880

\* ------------------------------------------------------------- inputs
Names == {"", "Rice 25kg"}
Whatsapps == {"", "2347012345678"}
Descriptions == {"Premium long grain rice"}
Prices == {<<>>, <<"7">>}
Usernames == {"", "ada"}
\* submitted form fields: complete, or with one required field absent
Bodies ==
    {b \in [name : Names, description : Descriptions, price : Prices,
            whatsapp : Whatsapps] :
        Cardinality({f \in {"name", "price", "whatsapp"} :
                        IF f = "price" THEN b[f] = <<>> ELSE b[f] = ""}) <= 1}
Passwords == {"pw"}
\* originalname of an uploaded file
OrigNames == {<<"A", " ", "b", ".", "p">>, <<"a", "-", "b", ".", "p">>}
Mimetypes == {<<"image/", "png">>, <<"text/", "plain">>}
FileSizes == {1, 5242881}
MsgTypes == {"getProducts", "ping"}

NoFile == <<>>
Null == <<>>

\* ------------------------------------------------------------- helpers
Range(s) == {s[i] : i \in 1..Len(s)}

\* String.prototype.toLowerCase, one character
LowerChar(c) == IF c = "A" THEN "a" ELSE IF c = "B" THEN "b" ELSE IF c = "P" THEN "p" ELSE c

\* /\s+/g replaced by '-': every maximal run of whitespace becomes one dash
RECURSIVE ReplaceSpaces(_)
ReplaceSpaces(s) ==
    IF s = <<>> THEN <<>>
    ELSE IF Head(s) = " "
         THEN IF Len(s) > 1 /\ s[2] = " "
              THEN ReplaceSpaces(Tail(s))
              ELSE <<"-">> \o ReplaceSpaces(Tail(s))
         ELSE <<Head(s)>> \o ReplaceSpaces(Tail(s))

ToLowerCase(s) == [i \in 1..Len(s) |-> LowerChar(s[i])]

\* path.extname: from the last '.' to the end; empty when there is no '.' or
\* the only '.' is the first character
Extname(s) ==
    LET dots == {i \in 1..Len(s) : s[i] = "."}
    IN IF dots = {} THEN <<>>
       ELSE LET d == CHOOSE i \in dots : \A j \in dots : j <= i
            IN IF d = 1 THEN <<>> ELSE SubSeq(s, d, Len(s))

\* String.prototype.replace(pat, ''): removes the first occurrence of pat
RemoveFirst(s, pat) ==
    LET occ == {i \in 1..(Len(s) - Len(pat) + 1) : SubSeq(s, i, i + Len(pat) - 1) = pat}
    IN IF pat = <<>> \/ occ = {} THEN s
       ELSE LET i == CHOOSE k \in occ : \A j \in occ : k <= j
            IN SubSeq(s, 1, i - 1) \o SubSeq(s, i + Len(pat), Len(s))

\* multer.diskStorage filename: Date.now() + '-' + normalised name + ext
Filename(t, orig) ==
    LET ext == Extname(orig)
    IN <<ToString(t), "-">> \o RemoveFirst(ToLowerCase(ReplaceSpaces(orig)), ext) \o ext

\* multer({dest}): a random 16-byte hex name, unique per stored file
RandomFilename(r) == <<"rnd", ToString(r)>>

\* fileFilter: file.mimetype.startsWith('image/')
FileFilter(mimetype) == Head(mimetype) = "image/"

\* `/uploads/${filename}`
UploadsUrl(filename) == <<"/uploads/">> \o filename

\* ------------------------------------------------------------- state
VARIABLES
    marketProducts, \* table products of market.db (/api/upload), in rowid order
    products,       \* table products of marketplace.sqlite (/api/products)
    users,          \* table users of marketplace.sqlite
    uploads,        \* files in uploads/ (multer dest of /api/upload)
    uploadsPath,    \* files in UPLOADS_PATH (multer diskStorage of /api/products)
    clients,        \* wss.clients: the sockets the WebSocket server holds
    readyState,     \* readyState of every socket created so far
    inbox,          \* messages sent to each socket, in order
    reqs,           \* product submissions: body, stored file, stage, response
    unlinks,        \* submissions whose fs.unlink has been started, not finished
    nowMs,          \* last reading of Date.now()
    nowSec          \* last reading of CURRENT_TIMESTAMP

vars == <<marketProducts, products, users, uploads, uploadsPath, clients,
          readyState, inbox, reqs, unlinks, nowMs, nowSec>>

\* const products of part_000: the in-memory product list, never mutated
memProducts ==
    << [name |-> "Rice 25kg", description |-> "Premium long grain rice",
        price |-> 14000, image |-> "rice.jpg", whatsapp |-> "2347012345678"],
       [name |-> "Red Oil 5L", description |-> "Pure red palm oil",
        price |-> 6000, image |-> "oil.jpg", whatsapp |-> "2348098765432"] >>

Init ==
    /\ marketProducts = <<>>
    /\ products = <<>>
    /\ users = <<>>
    /\ uploads = {}
    /\ uploadsPath = {}
    /\ clients = {}
    /\ readyState = <<>>
    /\ inbox = <<>>
    /\ reqs = <<>>
    /\ unlinks = {}
    /\ nowMs = 0
    /\ nowSec = 0

\* ------------------------------------------------------------- WebSocket
WelcomeMsg == [type |-> "welcome", message |-> "Connected!"]
NewProductMsg(p) == [type |-> "new-product", product |-> p]
ProductsMsg == [type |-> "products", data |-> memProducts]

\* the greeting left out
OnConnectionSilent(c) == <<>>

\* wss.on("connection"): the server holds the socket and greets it
OnConnection(c) == <<WelcomeMsg>>

Connect ==
    /\ Len(readyState) < MaxClients
    /\ LET c == Len(readyState) + 1
       IN /\ clients' = clients \cup {c}
          /\ readyState' = Append(readyState, "OPEN")
          /\ inbox' = Append(inbox, OnConnection(c))
    /\ UNCHANGED <<marketProducts, products, users, uploads, uploadsPath,
                   reqs, unlinks, nowMs, nowSec>>

\* the closing handshake starts: the socket stays in wss.clients
StartClose(c) ==
    /\ c \in clients
    /\ readyState[c] = "OPEN"
    /\ readyState' = [readyState EXCEPT ![c] = "CLOSING"]
    /\ UNCHANGED <<marketProducts, products, users, uploads, uploadsPath,
                   clients, inbox, reqs, unlinks, nowMs, nowSec>>

\* the socket's 'close' event: the server drops it from wss.clients
Closed(c) ==
    /\ c \in clients
    /\ readyState[c] = "CLOSING"
    /\ readyState' = [readyState EXCEPT ![c] = "CLOSED"]
    /\ clients' = clients \ {c}
    /\ UNCHANGED <<marketProducts, products, users, uploads, uploadsPath,
                   inbox, reqs, unlinks, nowMs, nowSec>>

Replies(c) == Cardinality({i \in 1..Len(inbox[c]) : inbox[c][i].type = "products"})

\* the reply sent to every open socket
ReplyToAll(inb, c, type) ==
    IF type = "getProducts"
    THEN [d \in DOMAIN inb |->
            IF d \in clients /\ readyState[d] = "OPEN"
            THEN Append(inb[d], ProductsMsg) ELSE inb[d]]
    ELSE inb

\* if (data.type === 'getProducts') ws.send(...): one reply, on the socket the
\* message came in on; any other type is ignored
Reply(inb, c, type) ==
    IF type = "getProducts" THEN [inb EXCEPT ![c] = Append(@, ProductsMsg)] ELSE inb

\* ws.on('message'): a getProducts message is answered with the product list
OnMessage(c, type) ==
    /\ c \in clients
    /\ readyState[c] = "OPEN"
    /\ Replies(c) < MaxMsgs
    /\ inbox' = Reply(inbox, c, type)
    /\ UNCHANGED <<marketProducts, products, users, uploads, uploadsPath,
                   clients, readyState, reqs, unlinks, nowMs, nowSec>>

\* the readyState test left out: every held socket is sent the message
BroadcastAnyState(inb, msg) ==
    [c \in DOMAIN inb |-> IF c \in clients THEN Append(inb[c], msg) ELSE inb[c]]

\* the message sent twice to every open socket
BroadcastTwice(inb, msg) ==
    [c \in DOMAIN inb |->
        IF c \in clients /\ readyState[c] = "OPEN"
        THEN Append(Append(inb[c], msg), msg) ELSE inb[c]]

\* each message put in front of what the socket was sent before
BroadcastNewestFirst(inb, msg) ==
    [c \in DOMAIN inb |->
        IF c \in clients /\ readyState[c] = "OPEN" THEN <<msg>> \o inb[c] ELSE inb[c]]

\* the loop ended by the first held socket that is not open
BroadcastStopsAtClosed(inb, msg) ==
    [c \in DOMAIN inb |->
        IF \A d \in clients : d <= c => readyState[d] = "OPEN"
        THEN IF c \in clients THEN Append(inb[c], msg) ELSE inb[c]
        ELSE inb[c]]

\* wss.clients.forEach: one send to every held socket whose readyState is OPEN
Broadcast(inb, msg) ==
    [c \in DOMAIN inb |->
        IF c \in clients /\ readyState[c] = "OPEN" THEN Append(inb[c], msg) ELSE inb[c]]

\* ------------------------------------------------------------- tables
\* every row given the first id
NextIdFirst(tbl) == 1

\* INTEGER PRIMARY KEY: one more than the largest rowid in the table
NextId(tbl) ==
    IF tbl = <<>> THEN 1
    ELSE 1 + (CHOOSE m \in {tbl[i].id : i \in 1..Len(tbl)} :
                 \A i \in 1..Len(tbl) : tbl[i].id <= m)

\* the insert lost: the table is left as it was
InsertMarketLost(tbl, q, image) == tbl

\* the image column left null
InsertMarketNoImage(tbl, q, image) ==
    Append(tbl, [id |-> NextId(tbl), name |-> q.name, description |-> q.description,
                 price |-> q.price, image |-> Null, whatsapp |-> q.whatsapp])

\* INSERT INTO products (name, description, price, image, whatsapp)
InsertMarket(tbl, q, image) ==
    Append(tbl, [id |-> NextId(tbl), name |-> q.name, description |-> q.description,
                 price |-> q.price, image |-> image, whatsapp |-> q.whatsapp])

DigitVal(c) == CHOOSE d \in 0..9 : ToString(d) = c
IsDigit(c) == \E d \in 0..9 : ToString(d) = c

RECURSIVE DigitsValue(_, _)
DigitsValue(s, acc) ==
    IF s = <<>> \/ ~IsDigit(Head(s)) THEN acc
    ELSE DigitsValue(Tail(s), 10 * acc + DigitVal(Head(s)))

\* parseFloat(price || 0) on whole numbers: an optional sign, then the leading
\* digits; NaN when no digit follows
ParseFloat(price) ==
    IF price = <<>> THEN [nan |-> FALSE, val |-> 0]
    ELSE LET neg == Head(price) = "-"
             body == IF Head(price) \in {"-", "+"} THEN Tail(price) ELSE price
         IN IF body = <<>> \/ ~IsDigit(Head(body))
            THEN [nan |-> TRUE, val |-> 0]
            ELSE [nan |-> FALSE,
                  val |-> IF neg THEN 0 - DigitsValue(body, 0) ELSE DigitsValue(body, 0)]

\* an optional sign followed by digits only
IsNumeric(text) ==
    /\ text # <<>>
    /\ LET body == IF Head(text) \in {"-", "+"} THEN Tail(text) ELSE text
       IN body # <<>> /\ \A i \in 1..Len(body) : IsDigit(body[i])

\* price REAL of market.db: the column's affinity turns a bound text that reads
\* as a number into that number and keeps any other text as text
ColumnReal(text) == IF IsNumeric(text) THEN ParseFloat(text) ELSE [text |-> text]

\* the statement run a second time
InsertProductTwice(tbl, userId, q, imageUrl, t) ==
    LET row == [id |-> NextId(tbl), user_id |-> userId, name |-> q.name,
                description |-> q.description, price |-> ParseFloat(q.price),
                image_url |-> imageUrl, whatsapp_number |-> q.whatsapp,
                created_at |-> t]
    IN Append(Append(tbl, row), [row EXCEPT !.id = NextId(tbl) + 1])

\* INSERT INTO products (user_id, name, description, price, image_url,
\* whatsapp_number), created_at DEFAULT CURRENT_TIMESTAMP
InsertProduct(tbl, userId, q, imageUrl, t) ==
    Append(tbl, [id |-> NextId(tbl), user_id |-> userId, name |-> q.name,
                 description |-> q.description, price |-> ParseFloat(q.price),
                 image_url |-> imageUrl, whatsapp_number |-> q.whatsapp,
                 created_at |-> t])

UserIds == {users[i].id : i \in 1..Len(users)}

\* foreign keys not enforced
ForeignKeyOff(userId) == TRUE

\* FOREIGN KEY (user_id) REFERENCES users(id), with PRAGMA foreign_keys = ON
ForeignKeyOk(userId) == userId \in UserIds

\* ------------------------------------------------------------- requests
\* the middleware's error not ending the request: the handler still runs
RequestIgnoringRejection(ep, body, file, rejected) ==
    [ep |-> ep, name |-> body.name, description |-> body.description,
     price |-> body.price, whatsapp |-> body.whatsapp, file |-> file,
     rejected |-> rejected, stage |-> "handler", status |-> 0]

\* req and res of a submission once the upload middleware is through: a
\* rejected upload is answered by Express's error handler, 500, and the route
\* handler never runs
Request(ep, body, file, rejected) ==
    [ep |-> ep, name |-> body.name, description |-> body.description,
     price |-> body.price, whatsapp |-> body.whatsapp, file |-> file,
     rejected |-> rejected,
     stage |-> IF rejected THEN "done" ELSE "handler",
     status |-> IF rejected THEN 500 ELSE 0]

Respond(r, code) == [reqs EXCEPT ![r].stage = "done", ![r].status = code]

\* upload.single("image") of multer({ dest: "uploads/" }): the file, if any, is
\* written under a random name before the handler runs; a write error ends the
\* request with Express's default 500
UploadArrive(body, hasFile, ok) ==
    /\ Len(reqs) < MaxReqs
    /\ LET r == Len(reqs) + 1
           stored == hasFile /\ ok
           file == IF stored THEN RandomFilename(r) ELSE NoFile
       IN /\ uploads' = IF stored THEN uploads \cup {file} ELSE uploads
          /\ reqs' = Append(reqs, Request("upload", body, file, hasFile /\ ~ok))
    /\ UNCHANGED <<marketProducts, products, users, uploadsPath, clients,
                   readyState, inbox, unlinks, nowMs, nowSec>>

\* if (!name || !price || !whatsapp || !image)
UploadMissing(q, image) ==
    q.name = "" \/ q.price = <<>> \/ q.whatsapp = "" \/ image = Null

\* app.post("/api/upload") handler: validate, insert, notify, respond
UploadHandler(r, dbFail) ==
    /\ r \in 1..Len(reqs)
    /\ reqs[r].ep = "upload"
    /\ reqs[r].stage = "handler"
    /\ LET q == reqs[r]
           image == IF q.file = NoFile THEN Null ELSE UploadsUrl(q.file)
           newProduct == [name |-> q.name, description |-> q.description,
                          price |-> q.price, image |-> image, whatsapp |-> q.whatsapp]
       IN IF UploadMissing(q, image)
          THEN /\ reqs' = Respond(r, 400)
               /\ UNCHANGED <<marketProducts, inbox>>
          ELSE IF dbFail
          THEN \* run() throws; no try/catch: Express answers 500
               /\ reqs' = Respond(r, 500)
               /\ UNCHANGED <<marketProducts, inbox>>
          ELSE /\ marketProducts' = InsertMarket(marketProducts, q, image)
               /\ inbox' = Broadcast(inbox, NewProductMsg(newProduct))
               /\ reqs' = Respond(r, 200)
    /\ UNCHANGED <<products, users, uploads, uploadsPath, clients, readyState,
                   unlinks, nowMs, nowSec>>

\* upload.single('productImage') of the diskStorage multer: a file that fails
\* the fileFilter or exceeds the size limit ends the request with a 500 and is
\* not kept; otherwise it is written under Filename(Date.now(), originalname)
ProductsArrive(body, hasFile, orig, mimetype, size, t) ==
    /\ Len(reqs) < MaxReqs
    /\ t \in {nowMs, nowMs + 1}
    /\ t <= MaxMs
    /\ LET accepted == FileFilter(mimetype) /\ size <= FileSizeLimit
           stored == hasFile /\ accepted
           file == IF stored THEN Filename(t, orig) ELSE NoFile
       IN /\ uploadsPath' = IF stored THEN uploadsPath \cup {file} ELSE uploadsPath
          /\ nowMs' = IF stored THEN t ELSE nowMs
          /\ reqs' = Append(reqs, Request("products", body, file,
                                          hasFile /\ ~accepted))
    /\ UNCHANGED <<marketProducts, products, users, uploads, clients,
                   readyState, inbox, unlinks, nowSec>>

\* only the name tested
ProductsMissingNameOnly(q) == q.name = ""

\* if (!name || !whatsapp_number)
ProductsMissing(q) == q.name = "" \/ q.whatsapp = ""

\* if (req.file) fs.unlink(req.file.path, ...): started now, done later
StartUnlink(r) == IF reqs[r].file # NoFile THEN unlinks \cup {r} ELSE unlinks

\* app.post('/api/products') handler, user_id fixed to 1
ProductsHandler(r, dbFail, t) ==
    /\ r \in 1..Len(reqs)
    /\ reqs[r].ep = "products"
    /\ reqs[r].stage = "handler"
    /\ t \in {nowSec, nowSec + 1}
    /\ t <= MaxSec
    /\ LET q == reqs[r]
           userId == 1
           imageUrl == IF q.file = NoFile THEN Null ELSE UploadsUrl(q.file)
       IN IF ProductsMissing(q)
          THEN /\ unlinks' = StartUnlink(r)
               /\ reqs' = Respond(r, 400)
               /\ UNCHANGED <<products, nowSec>>
          ELSE IF dbFail \/ ~ForeignKeyOk(userId)
          THEN /\ unlinks' = StartUnlink(r)
               /\ reqs' = Respond(r, 500)
               /\ UNCHANGED <<products, nowSec>>
          ELSE /\ products' = InsertProduct(products, userId, q, imageUrl, t)
               /\ nowSec' = t
               /\ reqs' = Respond(r, 201)
               /\ UNCHANGED unlinks
    /\ UNCHANGED <<marketProducts, users, uploads, uploadsPath, clients,
                   readyState, inbox, nowMs>>

\* fs.unlink completes: the file is removed (ENOENT is only logged)
Unlink(r) ==
    /\ r \in unlinks
    /\ uploadsPath' = uploadsPath \ {reqs[r].file}
    /\ unlinks' = unlinks \ {r}
    /\ UNCHANGED <<marketProducts, products, users, uploads, clients,
                   readyState, inbox, reqs, nowMs, nowSec>>

\* app.post('/api/register'): 400 on a missing field, 409 on a UNIQUE
\* violation, 500 on any other database error, else the seller row is stored
RegisterStatus(username, password, whatsapp, dbFail) ==
    IF username = "" \/ password = "" \/ whatsapp = "" THEN 400
    ELSE IF \E i \in 1..Len(users) :
                users[i].username = username \/ users[i].whatsapp_number = whatsapp
    THEN 409
    ELSE IF dbFail THEN 500
    ELSE 201

Register(username, password, whatsapp, dbFail) ==
    /\ users' = IF RegisterStatus(username, password, whatsapp, dbFail) = 201
                THEN Append(users, [id |-> NextId(users), username |-> username,
                                    password |-> password,
                                    whatsapp_number |-> whatsapp, role |-> "seller"])
                ELSE users
    /\ UNCHANGED <<marketProducts, products, uploads, uploadsPath, clients,
                   readyState, inbox, reqs, unlinks, nowMs, nowSec>>

Next ==
    \/ Connect
    \/ \E c \in 1..MaxClients : StartClose(c)
    \/ \E c \in 1..MaxClients : Closed(c)
    \/ \E c \in 1..MaxClients, type \in MsgTypes : OnMessage(c, type)
    \/ \E body \in Bodies, hasFile \in BOOLEAN, ok \in BOOLEAN :
            UploadArrive(body, hasFile, ok)
    \/ \E r \in 1..MaxReqs, dbFail \in BOOLEAN : UploadHandler(r, dbFail)
    \/ \E body \in Bodies, hasFile \in BOOLEAN, orig \in OrigNames,
          mimetype \in Mimetypes, size \in FileSizes, t \in 0..MaxMs :
            ProductsArrive(body, hasFile, orig, mimetype, size, t)
    \/ \E r \in 1..MaxReqs, dbFail \in BOOLEAN, t \in 0..MaxSec :
            ProductsHandler(r, dbFail, t)
    \/ \E r \in 1..MaxReqs : Unlink(r)
    \/ \E username \in Usernames, password \in Passwords, whatsapp \in Whatsapps,
          dbFail \in BOOLEAN : Register(username, password, whatsapp, dbFail)

Spec == Init /\ [][Next]_vars

\* the price field of a submission: absent, whole numbers, a negative number,
\* a text that is no number
PriceInputs == {<<>>, <<"7">>, <<"1", "2">>, <<"-", "7">>, <<"x">>}
\* submitted form fields with name and contact present and any price
PriceBodies ==
    [name : Names \ {""}, description : Descriptions, price : PriceInputs,
     whatsapp : Whatsapps \ {""}]

\* the submissions of both endpoints over PriceBodies, with a seller registered
\* first or not, the image stored (/api/upload) or absent (/api/products)
NextPrice ==
    \/ \E username \in Usernames, password \in Passwords, whatsapp \in Whatsapps :
            Register(username, password, whatsapp, FALSE)
    \/ \E body \in PriceBodies : UploadArrive(body, TRUE, TRUE)
    \/ \E r \in 1..MaxReqs, dbFail \in BOOLEAN : UploadHandler(r, dbFail)
    \/ \E body \in PriceBodies, orig \in OrigNames, mimetype \in Mimetypes,
          t \in 0..MaxMs : ProductsArrive(body, FALSE, orig, mimetype, 1, t)
    \/ \E r \in 1..MaxReqs, dbFail \in BOOLEAN, t \in 0..MaxSec :
            ProductsHandler(r, dbFail, t)

SpecPrice == Init /\ [][NextPrice]_vars

\* ------------------------------------------------------------- reads
Last(s) == s[Len(s)]

\* SELECT * FROM products ORDER BY id DESC (market.db)
RECURSIVE Reverse(_)
Reverse(s) == IF s = <<>> THEN <<>> ELSE Append(Reverse(Tail(s)), Head(s))

ListMarket == Reverse(marketProducts)

\* SELECT ... FROM products ORDER BY created_at DESC: every row once, later
\* created_at first; rows with equal created_at come in an order SQL leaves open
IsListing(l) ==
    /\ Len(l) = Len(products)
    /\ Range(l) = Range(products)
    /\ \A i \in 1..Len(l) : \A j \in 1..Len(l) :
           i < j => l[i].created_at >= l[j].created_at

Orderings(tbl) ==
    {[i \in 1..Len(tbl) |-> tbl[f[i]]] :
        f \in {g \in [1..Len(tbl) -> 1..Len(tbl)] :
                  \A a \in 1..Len(tbl) : \A b \in 1..Len(tbl) : g[a] = g[b] => a = b}}

ListProducts == {l \in Orderings(products) : IsListing(l)}

NotFound == [status |-> 404]

\* SELECT ... FROM products WHERE id = ?, the id taken from the URL as text
GetProductById(id) ==
    IF \E i \in 1..Len(products) : ToString(products[i].id) = id
    THEN products[CHOOSE i \in 1..Len(products) : ToString(products[i].id) = id]
    ELSE NotFound

\* ------------------------------------------------------------- vocabulary
Sockets == 1..Len(readyState)
IsOpen(c) == c \in clients /\ readyState[c] = "OPEN"

IsDelta(m) == m.type = "new-product"
\* the products a socket has been sent as new-product events, in order
Deltas(inb) == LET s == SelectSeq(inb, IsDelta) IN [i \in 1..Len(s) |-> s[i].product]
\* the products carried by a socket's first message, as a catalog snapshot would
InitialSnapshot(inb) ==
    IF inb = <<>> \/ inb[1].type = "welcome" \/ inb[1].type = "new-product" THEN {}
    ELSE Range(inb[1].data)

\* a row of either table as the product a client sees
MarketView(row) ==
    [name |-> row.name, description |-> row.description, price |-> row.price,
     image |-> row.image, whatsapp |-> row.whatsapp]
ProductView(row) ==
    [name |-> row.name, description |-> row.description, image |-> row.image_url,
     whatsapp |-> row.whatsapp_number]
Slim(p) ==
    [name |-> p.name, description |-> p.description, image |-> p.image,
     whatsapp |-> p.whatsapp]
MarketViews(tbl) == [i \in 1..Len(tbl) |-> MarketView(tbl[i])]
Catalog ==
    {Slim(MarketView(marketProducts[i])) : i \in 1..Len(marketProducts)}
        \cup {ProductView(products[i]) : i \in 1..Len(products)}

\* rows a step appends to a table
Added(old, new) == SubSeq(new, Len(old) + 1, Len(new))

BlobOf(image) == Tail(image)

\* ------------------------------------------------------------- claims

\* C1: a new-product event reaches a subscriber only after the product's row
\* is in the store and its image file is in the upload directory.
C1_PublishAfterCommit ==
    \A c \in Sockets : \A i \in 1..Len(inbox[c]) :
        IsDelta(inbox[c][i]) =>
            LET p == inbox[c][i].product
            IN /\ \E k \in 1..Len(marketProducts) : MarketView(marketProducts[k]) = p
               /\ p.image # Null => BlobOf(p.image) \in uploads

C1_Witness ==
    \E c \in Sockets : \E i \in 1..Len(inbox[c]) :
        /\ IsDelta(inbox[c][i])
        /\ inbox[c][i].product.image # Null
        /\ BlobOf(inbox[c][i].product.image) \in uploads

Delivered(inb) == InitialSnapshot(inb) \cup Range(Deltas(inb))

C3_Run ==
    \A c \in Sockets :
        /\ InitialSnapshot(inbox[c]) = {}
        /\ \E i \in 0..Len(marketProducts) : \E j \in i..Len(marketProducts) :
              /\ Deltas(inbox[c]) = MarketViews(SubSeq(marketProducts, i + 1, j))
              /\ IsOpen(c) => j = Len(marketProducts)
        /\ \A a \in 1..Len(Deltas(inbox[c])) : \A b \in 1..Len(Deltas(inbox[c])) :
              Deltas(inbox[c])[a] = Deltas(inbox[c])[b] => a = b

C3_Step ==
    \A c \in 1..Len(readyState') :
        Delivered(inbox'[c]) =
            IF c \in Sockets
            THEN Delivered(inbox[c]) \cup
                    (IF IsOpen(c)
                     THEN Range(MarketViews(Added(marketProducts, marketProducts')))
                     ELSE {})
            ELSE {}

Requests == 1..Len(reqs)
Answered(r) == reqs[r].stage = "done"
\* the submissions a step answers: those it creates already answered, and
\* those whose handler it runs
AnsweredNow(r) ==
    /\ r \in 1..Len(reqs')
    /\ reqs'[r].stage = "done"
    /\ r \in Requests => reqs[r].stage # "done"
LacksNameOrContact(q) == q.name = "" \/ q.whatsapp = ""
BlobExists(q) ==
    IF q.ep = "upload" THEN q.file \in uploads ELSE q.file \in uploadsPath
Referenced(file) ==
    \/ \E k \in 1..Len(marketProducts) : marketProducts[k].image = UploadsUrl(file)
    \/ \E k \in 1..Len(products) : products[k].image_url = UploadsUrl(file)

\* C5 as stated: a submission whose insert failed after its image was stored
\* is answered 500 with the stored file already deleted.
C5_Original ==
    \A r \in Requests :
        (Answered(r) /\ reqs[r].status = 500 /\ reqs[r].file # NoFile) =>
            ~BlobExists(reqs[r])

\* C6 as stated: a submission lacking name or contact is answered 400.
C6_Original ==
    \A r \in Requests :
        (Answered(r) /\ LacksNameOrContact(reqs[r])) => reqs[r].status = 400

\* C6 amended: a submission lacking name or contact is answered 400, or 500
\* when its upload was rejected before the fields were looked at; either way
\* the step that answers it leaves both product tables and every
\* subscriber's messages as they were.
C6_InvalidChangesNothing ==
    [][\A r \in 1..Len(reqs') :
          (AnsweredNow(r) /\ LacksNameOrContact(reqs'[r])) =>
              /\ reqs'[r].status = IF reqs'[r].rejected THEN 500 ELSE 400
              /\ marketProducts' = marketProducts
              /\ products' = products
              /\ inbox' = inbox]_vars

\* a nameless submission answered 400 by each endpoint, with a subscriber open
C6_Witness ==
    /\ \E c \in Sockets : IsOpen(c)
    /\ \E r \in Requests : \E u \in Requests :
          /\ reqs[r].ep = "upload" /\ reqs[u].ep = "products"
          /\ reqs[r].name = "" /\ reqs[u].name = ""
          /\ reqs[r].status = 400 /\ reqs[u].status = 400

\* C7 as stated: once every request is answered and every started deletion is
\* done, each stored file is the image of some row.
C7_Original ==
    ((\A r \in Requests : Answered(r)) /\ unlinks = {}) =>
        \A r \in Requests :
            (reqs[r].file # NoFile /\ BlobExists(reqs[r])) => Referenced(reqs[r].file)

\* C8 as stated: the image of every row is a file in the upload directory.
C8_Original ==
    /\ \A k \in 1..Len(marketProducts) :
          marketProducts[k].image # Null => BlobOf(marketProducts[k].image) \in uploads
    /\ \A k \in 1..Len(products) :
          products[k].image_url # Null => BlobOf(products[k].image_url) \in uploadsPath

\* the id a new-product event gives for its product, as a URL parameter
EventId(p) == IF "id" \in DOMAIN p THEN ToString(p.id) ELSE "undefined"

C10_Original ==
    [][\A r \in 1..Len(reqs') :
          (AnsweredNow(r) /\ ~LacksNameOrContact(reqs'[r]) /\ reqs'[r].file = NoFile
             /\ ~reqs'[r].rejected) =>
              /\ reqs'[r].status = 201
              /\ Len(Added(marketProducts, marketProducts'))
                    + Len(Added(products, products')) = 1
              /\ \A l \in ListProducts' :
                    /\ l # <<>>
                    /\ Head(l) = Last(products')
                    /\ Head(l).image_url = Null]_vars

\* C11: a submission whose upload is rejected (write error, disallowed type,
\* over the size limit) is answered with an error status, stores no file, adds
\* no row to either table and sends no message to any subscriber.
C11_RejectedUploadChangesNothing ==
    [][\A r \in 1..Len(reqs') :
          (AnsweredNow(r) /\ reqs'[r].rejected) =>
              /\ reqs'[r].status >= 400
              /\ reqs'[r].file = NoFile
              /\ uploads' = uploads /\ uploadsPath' = uploadsPath
              /\ marketProducts' = marketProducts
              /\ products' = products
              /\ inbox' = inbox]_vars

\* a complete submission with a rejected upload, answered 500 while a
\* subscriber is open and seller 1 exists
C11_Witness ==
    /\ \E c \in Sockets : IsOpen(c)
    /\ 1 \in UserIds
    /\ \E r \in Requests :
          /\ reqs[r].ep = "products" /\ reqs[r].rejected /\ reqs[r].status = 500
          /\ ~LacksNameOrContact(reqs[r])

StrictlyIncreasingIds(tbl) ==
    \A i \in 1..Len(tbl) : \A j \in 1..Len(tbl) : i < j => tbl[i].id < tbl[j].id
\* a step keeps every row and its id, and gives each new row an id above all
\* the ids the table held
GrowsWithFreshIds(old, new) ==
    /\ Len(new) >= Len(old)
    /\ SubSeq(new, 1, Len(old)) = old
    /\ \A k \in (Len(old) + 1)..Len(new) : \A i \in 1..Len(old) : new[k].id > old[i].id

\* C12: in both product tables the ids increase strictly in insert order, so
\* no two rows share an id; every insert takes an id greater than all ids
\* assigned before, and no row's id is ever changed or given to another row.
C12_MonotonicIds ==
    /\ [](StrictlyIncreasingIds(marketProducts) /\ StrictlyIncreasingIds(products))
    /\ [][/\ GrowsWithFreshIds(marketProducts, marketProducts')
          /\ GrowsWithFreshIds(products, products')]_vars

C12_Witness ==
    /\ Len(products) = 2
    /\ products[1].id = 1 /\ products[2].id = 2

\* a step that publishes: an /api/upload insert
Publishes == marketProducts' # marketProducts
\* a held socket the broadcast cannot deliver to
Undeliverable(c) == c \in clients /\ readyState[c] # "OPEN"

InInsertOrder(deltas) ==
    \A a \in 1..Len(deltas) : \A b \in 1..Len(deltas) :
        a < b =>
            \E i \in 1..Len(marketProducts) : \E j \in 1..Len(marketProducts) :
                /\ i < j
                /\ marketProducts[i].id < marketProducts[j].id
                /\ MarketView(marketProducts[i]) = deltas[a]
                /\ MarketView(marketProducts[j]) = deltas[b]

NewestFirst(l, tbl) ==
    /\ Len(l) = Len(tbl)
    /\ Range(l) = Range(tbl)
    /\ \A i \in 1..Len(l) : \A j \in 1..Len(l) : i < j => l[i].id > l[j].id

\* C16 as stated: each product listing returns every row of its table, each
\* exactly once, a row inserted later before any row inserted earlier.
C16_Original ==
    /\ NewestFirst(ListMarket, marketProducts)
    /\ \A l \in ListProducts : NewestFirst(l, products)

\* the number a price field stands for when it is digits only, 0 otherwise
ExpectedPrice(price) ==
    IF price # <<>> /\ \A i \in 1..Len(price) : IsDigit(price[i])
    THEN [nan |-> FALSE, val |-> DigitsValue(price, 0)]
    ELSE [nan |-> FALSE, val |-> 0]

\* the price held by the row a submission has just inserted
StoredPrice(ep) ==
    IF ep = "products" THEN Last(products').price
    ELSE ColumnReal(Last(marketProducts').price)

\* C17 as stated: the price stored by a successful submission is a
\* non-negative number: the submitted price when that is a non-negative
\* number, and 0 when the field is absent or is no number.
C17_Original ==
    [][\A r \in 1..Len(reqs') :
          (AnsweredNow(r) /\ reqs'[r].status \in {200, 201}) =>
              /\ StoredPrice(reqs'[r].ep) = ExpectedPrice(reqs'[r].price)
              /\ StoredPrice(reqs'[r].ep).val >= 0]_vars

\* the rows a step adds to the two tables together
RowsCreated ==
    Len(Added(marketProducts, marketProducts')) + Len(Added(products, products'))
IsSuccess(code) == code \in {200, 201}
IsError(code) == code >= 400

ValidProductSubmission(q) ==
    q.ep = "products" /\ ~q.rejected /\ ~LacksNameOrContact(q)

\* C19: the user_id of every row of products is the id of a row of users; a
\* valid /api/products submission handled while no user has id 1 is answered
\* 500 and adds no row, the deletion of its uploaded file is started with the
\* answer, and the file is gone from the upload directory when that deletion
\* completes.
C19_UserIdRefersToUser ==
    /\ [](\A k \in 1..Len(products) : products[k].user_id \in UserIds)
    /\ [][/\ \A r \in 1..Len(reqs') :
                (AnsweredNow(r) /\ ValidProductSubmission(reqs'[r]) /\ 1 \notin UserIds) =>
                    /\ reqs'[r].status = 500
                    /\ products' = products
                    /\ marketProducts' = marketProducts
                    /\ reqs'[r].file # NoFile => r \in unlinks'
          /\ \A r \in unlinks :
                r \notin unlinks' => reqs[r].file \notin uploadsPath']_vars

\* a valid submission with a file, answered 500 for want of user 1, its file
\* deleted, and no row
C19_Witness ==
    /\ users = <<>>
    /\ products = <<>>
    /\ \E r \in Requests :
          /\ ValidProductSubmission(reqs[r])
          /\ reqs[r].file # NoFile
          /\ reqs[r].status = 500
          /\ r \notin unlinks
          /\ reqs[r].file \notin uploadsPath

IsReply(m) == m.type = "products"
\* the replies to getProducts a socket has been sent
RepliesIn(inb) == SelectSeq(inb, IsReply)
\* a step in which some socket is sent a reply: a getProducts message handled
GetProductsHandled ==
    \E c \in Sockets : Len(RepliesIn(inbox'[c])) > Len(RepliesIn(inbox[c]))

====
